---- MODULE Spec2Model ----
(***************************************************************************)
(* Addressing and envelope layer of agent-rs (src/src/mqtt.rs,             *)
(* src/src/serde.rs): topic resolution for publishing and subscribing,     *)
(* the Agent's calls into the MQTT client, the envelope codec and the      *)
(* AuthnProperties codec.                                                  *)
(*                                                                         *)
(* Representation of Rust strings.  A String is a sequence of tokens: the  *)
(* characters of Special are tokens of their own, and every maximal run of *)
(* other characters is one token (a TLA+ string).  "apps/a.b/api" is       *)
(* <<"apps", "/", "a.b", "/", "api">>.  The representation is canonical    *)
(* (no two adjacent ordinary tokens), so equality of token sequences is    *)
(* equality of the strings; Cat keeps it canonical.                        *)
(*                                                                         *)
(* Let(v, F) is "let x = v in F(x)": v is evaluated once and F sees its    *)
(* value, as a Rust let binding does.                                      *)
(***************************************************************************)
EXTENDS Integers, Sequences, FiniteSets, TLC

VARIABLES agent, tx, ret

vars == <<agent, tx, ret>>

\* Longest log of calls the MQTT client has received.
MaxTx == 1

----------------------------------------------------------------------------
(* Local bindings *)

Let(v, F(_)) == CHOOSE r \in { F(x) : x \in {v} } : TRUE
Let2(v, w, F(_, _)) == CHOOSE r \in { F(x, y) : x \in {v}, y \in {w} } : TRUE

----------------------------------------------------------------------------
(* Strings *)

Special == {"/", "+", "\"", "\\"}

\* String concatenation (push_str / the pieces of a format! template).
Cat(left, right) ==
  Let2(left, right, LAMBDA a, b :
    IF a = <<>> THEN b
    ELSE IF b = <<>> THEN a
    ELSE IF a[Len(a)] \notin Special /\ b[1] \notin Special
         THEN SubSeq(a, 1, Len(a) - 1) \o <<a[Len(a)] \o b[1]>> \o Tail(b)
         ELSE a \o b)

\* format!: the literal pieces and the arguments of a template, in order.
RECURSIVE Format(_)
Format(pieces) ==
  Let(pieces, LAMBDA parts :
    IF parts = <<>> THEN <<>> ELSE Cat(Head(parts), Format(Tail(parts))))

\* Result<T, Error> and Option<T>.
Ok(v) == [ok |-> TRUE, val |-> v]
Err(e) == [ok |-> FALSE, err |-> e]
None == [some |-> FALSE]
Some(v) == [some |-> TRUE, val |-> v]

----------------------------------------------------------------------------
(* Identity and addressing model (crate root) *)

AccountId_new(label, audience) == [label |-> label, audience |-> audience]
AgentId_new(label, account_id) == [label |-> label, account_id |-> account_id]

\* Display for AccountId: label.audience
AccountId_to_string(a) == Format(<<a.label, <<".">>, a.audience>>)
\* Display for AgentId: label.account_id
AgentId_to_string(g) == Format(<<g.label, <<".">>, AccountId_to_string(g.account_id)>>)
\* Display for SharedGroup: the wrapped group name.
SharedGroup_to_string(group) == group

\* Destination: the outgoing addressing intent.
Broadcast(uri) == [tag |-> "Broadcast", uri |-> uri]
Multicast(account_id) == [tag |-> "Multicast", account_id |-> account_id]
Unicast(agent_id) == [tag |-> "Unicast", agent_id |-> agent_id]

\* Source: the incoming addressing intent.
SourceBroadcast(from, uri) == [tag |-> "Broadcast", from |-> from, uri |-> uri]
SourceMulticast == [tag |-> "Multicast"]
SourceUnicast(from) == [tag |-> "Unicast", from |-> from]

\* AuthnProperties wraps an AgentId; Authenticable / Addressable accessors.
AuthnProperties_from(agent_id) == [agent_id |-> agent_id]
account_id(me) == me.agent_id.account_id
agent_id(me) == me.agent_id

----------------------------------------------------------------------------
(* Message properties and outgoing messages *)

OutgoingEventProperties_new(label) == [label |-> label]

OutgoingRequestProperties_new(method, response_topic, authn, correlation_data) ==
  [method |-> method, response_topic |-> response_topic, authn |-> authn,
   correlation_data |-> correlation_data]

OutgoingResponseProperties_new(status, correlation_data, response_topic) ==
  [status |-> status, correlation_data |-> correlation_data,
   response_topic |-> response_topic]

OutgoingMessage_new(payload, properties, destination) ==
  [payload |-> payload, properties |-> properties, destination |-> destination]

\* compat::OutgoingEnvelopeProperties: the properties tagged by role.
EventProps(p) == [type |-> "event", props |-> p]
RequestProps(p) == [type |-> "request", props |-> p]
ResponseProps(p) == [type |-> "response", props |-> p]

OutgoingEnvelope_new(payload, properties, destination) ==
  [payload |-> payload, properties |-> properties, destination |-> destination]

----------------------------------------------------------------------------
(* Topic resolution: DestinationTopic *)

IncompatibleDestination(role, dest) ==
  [kind |-> "IncompatibleDestination", role |-> role, dest |-> dest]

\* The event topic with the catch-all arm sending to the app's root.
OutgoingEventProperties_destination_topic_lenient(self, me, dest) ==
  IF dest.tag = "Broadcast"
  THEN Ok(Format(<<<<"apps", "/">>, AccountId_to_string(account_id(me)),
                   <<"/", "api", "/", "v1", "/">>, dest.uri>>))
  ELSE Ok(Format(<<<<"apps", "/">>, AccountId_to_string(account_id(me)),
                   <<"/", "api", "/", "v1">>>>))

OutgoingEventProperties_destination_topic(self, me, dest) ==
  IF dest.tag = "Broadcast"
  THEN Ok(Format(<<<<"apps", "/">>, AccountId_to_string(account_id(me)),
                   <<"/", "api", "/", "v1", "/">>, dest.uri>>))
  ELSE Err(IncompatibleDestination("event", dest))

\* The request topics with the two identities of each pattern exchanged.
OutgoingRequestProperties_destination_topic_swapped(self, me, dest) ==
  IF dest.tag = "Unicast"
  THEN Ok(Format(<<<<"agents", "/">>, AgentId_to_string(agent_id(me)),
                   <<"/", "api", "/", "v1", "/", "in", "/">>,
                   AccountId_to_string(account_id(dest))>>))
  ELSE IF dest.tag = "Multicast"
  THEN Ok(Format(<<<<"agents", "/">>, AgentId_to_string(agent_id(me)),
                   <<"/", "api", "/", "v1", "/", "out", "/">>,
                   AccountId_to_string(account_id(me))>>))
  ELSE Err(IncompatibleDestination("request", dest))

\* The request topics with the Unicast arm copied from the Multicast arm's
\* direction.
OutgoingRequestProperties_destination_topic_out(self, me, dest) ==
  IF dest.tag = "Unicast"
  THEN Ok(Format(<<<<"agents", "/">>, AgentId_to_string(dest.agent_id),
                   <<"/", "api", "/", "v1", "/", "out", "/">>,
                   AccountId_to_string(account_id(me))>>))
  ELSE IF dest.tag = "Multicast"
  THEN Ok(Format(<<<<"agents", "/">>, AgentId_to_string(agent_id(me)),
                   <<"/", "api", "/", "v1", "/", "out", "/">>,
                   AccountId_to_string(dest.account_id)>>))
  ELSE Err(IncompatibleDestination("request", dest))

OutgoingRequestProperties_destination_topic(self, me, dest) ==
  IF dest.tag = "Unicast"
  THEN Ok(Format(<<<<"agents", "/">>, AgentId_to_string(dest.agent_id),
                   <<"/", "api", "/", "v1", "/", "in", "/">>,
                   AccountId_to_string(account_id(me))>>))
  ELSE IF dest.tag = "Multicast"
  THEN Ok(Format(<<<<"agents", "/">>, AgentId_to_string(agent_id(me)),
                   <<"/", "api", "/", "v1", "/", "out", "/">>,
                   AccountId_to_string(dest.account_id)>>))
  ELSE Err(IncompatibleDestination("request", dest))

\* The response topic with the destination matched before the explicit topic.
OutgoingResponseProperties_destination_topic_dest_first(self, me, dest) ==
  IF dest.tag = "Unicast"
  THEN IF self.response_topic.some
       THEN Ok(self.response_topic.val)
       ELSE Ok(Format(<<<<"agents", "/">>, AgentId_to_string(dest.agent_id),
                        <<"/", "api", "/", "v1", "/", "in", "/">>,
                        AccountId_to_string(account_id(me))>>))
  ELSE Err(IncompatibleDestination("response", dest))

OutgoingResponseProperties_destination_topic(self, me, dest) ==
  IF self.response_topic.some
  THEN Ok(self.response_topic.val)
  ELSE IF dest.tag = "Unicast"
  THEN Ok(Format(<<<<"agents", "/">>, AgentId_to_string(dest.agent_id),
                   <<"/", "api", "/", "v1", "/", "in", "/">>,
                   AccountId_to_string(account_id(me))>>))
  ELSE Err(IncompatibleDestination("response", dest))

\* impl DestinationTopic for compat::OutgoingEnvelopeProperties
OutgoingEnvelopeProperties_destination_topic(self, me, dest) ==
  CASE self.type = "event" ->
         OutgoingEventProperties_destination_topic(self.props, me, dest)
    [] self.type = "request" ->
         OutgoingRequestProperties_destination_topic(self.props, me, dest)
    [] self.type = "response" ->
         OutgoingResponseProperties_destination_topic(self.props, me, dest)

\* impl Publishable for compat::OutgoingEnvelope
OutgoingEnvelope_destination_topic(self, me) ==
  OutgoingEnvelopeProperties_destination_topic(self.properties, me, self.destination)

----------------------------------------------------------------------------
(* Topic resolution: SubscriptionTopic *)

IncompatibleSource(role, source) ==
  [kind |-> "IncompatibleSource", role |-> role, source |-> source]

\* The event pattern built from the subscriber's account.
EventSubscription_subscription_topic_own_account(self, me) ==
  IF self.source.tag = "Broadcast"
  THEN Ok(Format(<<<<"apps", "/">>, AccountId_to_string(account_id(me)),
                   <<"/", "api", "/", "v1", "/">>, self.source.uri>>))
  ELSE Err(IncompatibleSource("event", self.source))

EventSubscription_subscription_topic(self, me) ==
  IF self.source.tag = "Broadcast"
  THEN Ok(Format(<<<<"apps", "/">>, AccountId_to_string(account_id(self.source.from)),
                   <<"/", "api", "/", "v1", "/">>, self.source.uri>>))
  ELSE Err(IncompatibleSource("event", self.source))

\* The request patterns with the subscriber's own agent in place of the wildcard.
RequestSubscription_subscription_topic_no_wildcard(self, me) ==
  IF self.source.tag = "Multicast"
  THEN Ok(Format(<<<<"agents", "/">>, AgentId_to_string(agent_id(me)),
                   <<"/", "api", "/", "v1", "/", "out", "/">>,
                   AccountId_to_string(account_id(me))>>))
  ELSE IF self.source.tag = "Unicast" /\ self.source.from.some
  THEN Ok(Format(<<<<"agents", "/">>, AgentId_to_string(agent_id(me)),
                   <<"/", "api", "/", "v1", "/", "in", "/">>,
                   AccountId_to_string(account_id(self.source.from.val))>>))
  ELSE IF self.source.tag = "Unicast"
  THEN Ok(Format(<<<<"agents", "/">>, AgentId_to_string(agent_id(me)),
                   <<"/", "api", "/", "v1", "/", "in", "/", "+">>>>))
  ELSE Err(IncompatibleSource("request", self.source))

RequestSubscription_subscription_topic(self, me) ==
  IF self.source.tag = "Multicast"
  THEN Ok(Format(<<<<"agents", "/", "+", "/", "api", "/", "v1", "/", "out", "/">>,
                   AccountId_to_string(account_id(me))>>))
  ELSE IF self.source.tag = "Unicast" /\ self.source.from.some
  THEN Ok(Format(<<<<"agents", "/">>, AgentId_to_string(agent_id(me)),
                   <<"/", "api", "/", "v1", "/", "in", "/">>,
                   AccountId_to_string(account_id(self.source.from.val))>>))
  ELSE IF self.source.tag = "Unicast"
  THEN Ok(Format(<<<<"agents", "/">>, AgentId_to_string(agent_id(me)),
                   <<"/", "api", "/", "v1", "/", "in", "/", "+">>>>))
  ELSE Err(IncompatibleSource("request", self.source))

\* The response patterns with the request subscription's Multicast arm kept.
ResponseSubscription_subscription_topic_with_multicast(self, me) ==
  IF self.source.tag = "Multicast"
  THEN Ok(Format(<<<<"agents", "/", "+", "/", "api", "/", "v1", "/", "out", "/">>,
                   AccountId_to_string(account_id(me))>>))
  ELSE IF self.source.tag = "Unicast" /\ self.source.from.some
  THEN Ok(Format(<<<<"agents", "/">>, AgentId_to_string(agent_id(me)),
                   <<"/", "api", "/", "v1", "/", "in", "/">>,
                   AccountId_to_string(account_id(self.source.from.val))>>))
  ELSE IF self.source.tag = "Unicast"
  THEN Ok(Format(<<<<"agents", "/">>, AgentId_to_string(agent_id(me)),
                   <<"/", "api", "/", "v1", "/", "in", "/", "+">>>>))
  ELSE Err(IncompatibleSource("response", self.source))

ResponseSubscription_subscription_topic(self, me) ==
  IF self.source.tag = "Unicast" /\ self.source.from.some
  THEN Ok(Format(<<<<"agents", "/">>, AgentId_to_string(agent_id(me)),
                   <<"/", "api", "/", "v1", "/", "in", "/">>,
                   AccountId_to_string(account_id(self.source.from.val))>>))
  ELSE IF self.source.tag = "Unicast"
  THEN Ok(Format(<<<<"agents", "/">>, AgentId_to_string(agent_id(me)),
                   <<"/", "api", "/", "v1", "/", "in", "/", "+">>>>))
  ELSE Err(IncompatibleSource("response", self.source))

\* S: SubscriptionTopic, dispatched on the subscription's marker type.
subscription_topic(self, me) ==
  CASE self.role = "event" -> EventSubscription_subscription_topic(self, me)
    [] self.role = "request" -> RequestSubscription_subscription_topic(self, me)
    [] self.role = "response" -> ResponseSubscription_subscription_topic(self, me)

----------------------------------------------------------------------------
(* serde_json: JSON text of the payload types, and JSON strings *)

\* Payload values (T: Serialize): (), bool, u64, String, and a map whose keys
\* are not strings, which serde_json refuses to serialize.
JNull == [t |-> "null"]
JBool(b) == [t |-> "bool", b |-> b]
JNum(n) == [t |-> "num", n |-> n]
JStr(s) == [t |-> "str", s |-> s]
JBadMap == [t |-> "map_with_non_string_keys"]

\* Decimal numerals of the integers of the model (itoa).
Numerals == <<[n |-> 0, lit |-> "0"], [n |-> 7, lit |-> "7"], [n |-> 42, lit |-> "42"]>>
NumeralOf(n) == (CHOOSE i \in 1..Len(Numerals) : Numerals[i].n = n)
IsNumeral(lit) == \E i \in 1..Len(Numerals) : Numerals[i].lit = lit
ValueOfNumeral(lit) == Numerals[CHOOSE i \in 1..Len(Numerals) : Numerals[i].lit = lit].n

\* The characters of a string as they stand between the quotes of a JSON string.
RECURSIVE Escape(_)
Escape(str) ==
  Let(str, LAMBDA s :
    IF s = <<>> THEN <<>>
    ELSE Cat(IF Head(s) \in {"\"", "\\"} THEN <<"\\", Head(s)>> ELSE <<Head(s)>>,
             Escape(Tail(s))))

\* The inverse, on what stands between the quotes: a backslash takes the next
\* character, a bare quote ends the string too early.
RECURSIVE Unescape(_)
Unescape(escaped) ==
  Let(escaped, LAMBDA text :
    IF text = <<>> THEN Ok(<<>>)
    ELSE IF Head(text) = "\""
    THEN Err([kind |-> "Syntax"])
    ELSE IF Head(text) = "\\"
    THEN IF Len(text) >= 2 /\ text[2] \in {"\"", "\\", "/"}
         THEN Let(Unescape(Tail(Tail(text))), LAMBDA rest :
                IF rest.ok THEN Ok(Cat(<<text[2]>>, rest.val)) ELSE rest)
         ELSE Err([kind |-> "Syntax"])
    ELSE Let(Unescape(Tail(text)), LAMBDA rest :
           IF rest.ok THEN Ok(Cat(<<Head(text)>>, rest.val)) ELSE rest))

\* A JSON string: the quotes and the escaped characters.
JsonString(s) == <<"\"">> \o Escape(s) \o <<"\"">>

ParseJsonString(json) ==
  Let(json, LAMBDA text :
    IF Len(text) >= 2 /\ text[1] = "\"" /\ text[Len(text)] = "\""
    THEN Unescape(SubSeq(text, 2, Len(text) - 1))
    ELSE Err([kind |-> "Syntax"]))

\* serde_json::to_string(&payload)
to_string(value) ==
  Let(value, LAMBDA payload :
  CASE payload.t = "null" -> Ok(<<"null">>)
    [] payload.t = "bool" -> Ok(IF payload.b THEN <<"true">> ELSE <<"false">>)
    [] payload.t = "num" -> Ok(<<Numerals[NumeralOf(payload.n)].lit>>)
    [] payload.t = "str" -> Ok(JsonString(payload.s))
    [] OTHER -> Err([kind |-> "PayloadSerializationError"]))

\* serde_json::from_str::<T>(text), T one of the payload types.
from_str(T, json) ==
  Let(json, LAMBDA text :
  CASE T = "unit" ->
         IF text = <<"null">> THEN Ok(JNull)
         ELSE Err([kind |-> "PayloadDeserializationError"])
    [] T = "bool" ->
         IF text = <<"true">> THEN Ok(JBool(TRUE))
         ELSE IF text = <<"false">> THEN Ok(JBool(FALSE))
         ELSE Err([kind |-> "PayloadDeserializationError"])
    [] T = "u64" ->
         IF Len(text) = 1 /\ IsNumeral(text[1]) THEN Ok(JNum(ValueOfNumeral(text[1])))
         ELSE Err([kind |-> "PayloadDeserializationError"])
    [] T = "String" ->
         Let(ParseJsonString(text), LAMBDA s :
           IF s.ok THEN Ok(JStr(s.val))
           ELSE Err([kind |-> "PayloadDeserializationError"])))

\* The Rust type of a payload value.
TypeOf(payload) ==
  CASE payload.t = "null" -> "unit"
    [] payload.t = "bool" -> "bool"
    [] payload.t = "num" -> "u64"
    [] payload.t = "str" -> "String"

----------------------------------------------------------------------------
(* JSON documents: an object is the sequence of its members, in order; a    *)
(* string member holds the JSON string as written (quoted and escaped).     *)

Member(key, value) == [key |-> key, value |-> value]
StringNode(s) == [node |-> "string", text |-> JsonString(s)]
NumberNode(n) == [node |-> "number", n |-> n]
ObjectNode(members) == [node |-> "object", members |-> members]

\* HttpStatusCodeRef: the status code as its u16 (http::StatusCode::as_u16).
HttpStatusCodeRef(status) == NumberNode(status)

\* impl Serialize for AuthnProperties: three flattened scalar fields.
AuthnProperties_serialize(self) ==
  << Member("agent_label", StringNode(self.agent_id.label)),
     Member("account_label", StringNode(self.agent_id.account_id.label)),
     Member("audience", StringNode(self.agent_id.account_id.audience)) >>

OutgoingEventProperties_serialize(self) ==
  << Member("label", StringNode(self.label)) >>

\* The request properties with authn skipped instead of flattened.
OutgoingRequestProperties_serialize_skip_authn(self) ==
  << Member("method", StringNode(self.method)),
     Member("correlation_data", StringNode(self.correlation_data)),
     Member("response_topic", StringNode(self.response_topic)) >>

OutgoingRequestProperties_serialize(self) ==
  << Member("method", StringNode(self.method)),
     Member("correlation_data", StringNode(self.correlation_data)),
     Member("response_topic", StringNode(self.response_topic)) >>
  \o (IF self.authn.some THEN AuthnProperties_serialize(self.authn.val) ELSE <<>>)

\* response_topic is #[serde(skip)].
OutgoingResponseProperties_serialize(self) ==
  << Member("status", HttpStatusCodeRef(self.status)),
     Member("correlation_data", StringNode(self.correlation_data)) >>

\* #[serde(tag = "type", rename_all = "lowercase")]
OutgoingEnvelopeProperties_serialize(self) ==
  << Member("type", StringNode(<<self.type>>)) >>
  \o (CASE self.type = "event" -> OutgoingEventProperties_serialize(self.props)
        [] self.type = "request" -> OutgoingRequestProperties_serialize(self.props)
        [] self.type = "response" -> OutgoingResponseProperties_serialize(self.props))

\* destination is #[serde(skip)].
OutgoingEnvelope_serialize(self) ==
  << Member("payload", StringNode(self.payload)),
     Member("properties", ObjectNode(OutgoingEnvelopeProperties_serialize(self.properties))) >>

\* impl Publishable for compat::OutgoingEnvelope
OutgoingEnvelope_to_bytes(self) == Ok(OutgoingEnvelope_serialize(self))

\* impl IntoEnvelope for OutgoingEvent / OutgoingRequest / OutgoingResponse
OutgoingEvent_into_envelope(self) ==
  Let(to_string(self.payload), LAMBDA payload :
    IF ~payload.ok THEN payload
    ELSE Ok(OutgoingEnvelope_new(payload.val, EventProps(self.properties), self.destination)))

OutgoingRequest_into_envelope(self) ==
  Let(to_string(self.payload), LAMBDA payload :
    IF ~payload.ok THEN payload
    ELSE Ok(OutgoingEnvelope_new(payload.val, RequestProps(self.properties), self.destination)))

OutgoingResponse_into_envelope(self) ==
  Let(to_string(self.payload), LAMBDA payload :
    IF ~payload.ok THEN payload
    ELSE Ok(OutgoingEnvelope_new(payload.val, ResponseProps(self.properties), self.destination)))

----------------------------------------------------------------------------
(* impl Deserialize for AuthnProperties (serde.rs) *)

FIELDS == <<"agent_label", "account_label", "audience">>

UnknownField(name) == [kind |-> "UnknownField", field |-> name]
DuplicateField(name) == [kind |-> "DuplicateField", field |-> name]
MissingField(name) == [kind |-> "MissingField", field |-> name]
InvalidType(name) == [kind |-> "InvalidType", field |-> name]

\* FieldVisitor::visit_str
Field_visit_str(value) ==
  CASE value = "agent_label" -> Ok("AgentLabel")
    [] value = "account_label" -> Ok("AccountLabel")
    [] value = "audience" -> Ok("Audience")
    [] OTHER -> Err(UnknownField(value))

\* map.next_value() for a string-typed field.
next_value(entry) ==
  Let(entry, LAMBDA member :
    IF member.value.node = "string"
    THEN Let(ParseJsonString(member.value.text), LAMBDA s :
           IF s.ok THEN s ELSE Err(InvalidType(member.key)))
    ELSE Err(InvalidType(member.key)))

\* The while loop of AuthnPropertiesVisitor::visit_map: st holds the three
\* Option locals; the first failing key or value ends it.
RECURSIVE visit_map_loop(_, _)
visit_map_loop(entries, locals) ==
  Let2(entries, locals, LAMBDA map, st :
  IF map = <<>> THEN Ok(st)
  ELSE Let2(Field_visit_str(Head(map).key), next_value(Head(map)), LAMBDA key, value :
          IF ~key.ok THEN key
          ELSE CASE key.val = "AgentLabel" ->
                      IF st.agent_label.some THEN Err(DuplicateField("agent_label"))
                      ELSE IF ~value.ok THEN value
                      ELSE visit_map_loop(Tail(map),
                                          [st EXCEPT !.agent_label = Some(value.val)])
                 [] key.val = "AccountLabel" ->
                      IF st.account_label.some THEN Err(DuplicateField("account_label"))
                      ELSE IF ~value.ok THEN value
                      ELSE visit_map_loop(Tail(map),
                                          [st EXCEPT !.account_label = Some(value.val)])
                 [] key.val = "Audience" ->
                      IF st.audience.some THEN Err(DuplicateField("audience"))
                      ELSE IF ~value.ok THEN value
                      ELSE visit_map_loop(Tail(map),
                                          [st EXCEPT !.audience = Some(value.val)])))

\* visit_map with the arguments of AccountId::new exchanged.
visit_map_swapped(map) ==
  Let(visit_map_loop(map, [agent_label |-> None, account_label |-> None,
                           audience |-> None]), LAMBDA st :
    IF ~st.ok THEN st
    ELSE IF ~st.val.agent_label.some THEN Err(MissingField("agent_label"))
    ELSE IF ~st.val.account_label.some THEN Err(MissingField("account_label"))
    ELSE IF ~st.val.audience.some THEN Err(MissingField("audience"))
    ELSE LET account == AccountId_new(st.val.audience.val, st.val.account_label.val)
             id == AgentId_new(st.val.agent_label.val, account)
         IN Ok(AuthnProperties_from(id)))

\* AuthnPropertiesVisitor::visit_map
visit_map(map) ==
  Let(visit_map_loop(map, [agent_label |-> None, account_label |-> None,
                           audience |-> None]), LAMBDA st :
    IF ~st.ok THEN st
    ELSE IF ~st.val.agent_label.some THEN Err(MissingField("agent_label"))
    ELSE IF ~st.val.account_label.some THEN Err(MissingField("account_label"))
    ELSE IF ~st.val.audience.some THEN Err(MissingField("audience"))
    ELSE LET account == AccountId_new(st.val.account_label.val, st.val.audience.val)
             id == AgentId_new(st.val.agent_label.val, account)
         IN Ok(AuthnProperties_from(id)))

\* AuthnProperties::deserialize on a JSON object: every key of the object
\* reaches visit_map.
AuthnProperties_deserialize(members) == visit_map(members)

\* The members of `members` whose key is one of `fields`, in order.
RECURSIVE TakeFields(_, _)
TakeFields(object, names) ==
  Let2(object, names, LAMBDA members, fields :
    IF members = <<>> THEN <<>>
    ELSE (IF Head(members).key \in fields THEN <<Head(members)>> ELSE <<>>)
         \o TakeFields(Tail(members), fields))

\* The members of `members` whose key is none of `fields`, in order.
RECURSIVE DropFields(_, _)
DropFields(object, names) ==
  Let2(object, names, LAMBDA members, fields :
    IF members = <<>> THEN <<>>
    ELSE (IF Head(members).key \in fields THEN <<>> ELSE <<Head(members)>>)
         \o DropFields(Tail(members), fields))

\* AuthnProperties as a #[serde(flatten)] field: deserialize_struct hands
\* visit_map only the members named in FIELDS.
AuthnProperties_deserialize_flatten(members) ==
  visit_map(TakeFields(members, {FIELDS[i] : i \in 1..Len(FIELDS)}))

----------------------------------------------------------------------------
(* #[derive(Deserialize)] of the incoming properties and envelope *)

\* The string-typed fields `fields` of a derived struct, read from `members`
\* in order: acc maps each field to its Option; other keys are left alone.
RECURSIVE VisitStrings(_, _, _)
VisitStrings(object, fields, got) ==
  Let2(object, got, LAMBDA members, acc :
    IF members = <<>> THEN Ok(acc)
    ELSE Let2(Head(members), next_value(Head(members)), LAMBDA m, value :
           IF m.key \notin fields THEN VisitStrings(Tail(members), fields, acc)
           ELSE IF acc[m.key].some THEN Err(DuplicateField(m.key))
           ELSE IF ~value.ok THEN value
           ELSE VisitStrings(Tail(members), fields,
                             [acc EXCEPT ![m.key] = Some(value.val)])))

\* The first of `order` that acc has not got, if any.
RECURSIVE FirstMissing(_, _)
FirstMissing(declared, got) ==
  Let2(declared, got, LAMBDA order, acc :
    IF order = <<>> THEN None
    ELSE IF ~acc[Head(order)].some THEN Some(Head(order))
    ELSE FirstMissing(Tail(order), acc))

StructStrings(members, order) ==
  Let({order[i] : i \in 1..Len(order)}, LAMBDA fields :
    Let(VisitStrings(members, fields, [f \in fields |-> None]), LAMBDA acc :
      IF ~acc.ok THEN acc
      ELSE Let(FirstMissing(order, acc.val), LAMBDA missing :
             IF missing.some THEN Err(MissingField(missing.val)) ELSE acc)))

IncomingEventProperties_deserialize(members) ==
  Let(AuthnProperties_deserialize_flatten(members), LAMBDA authn :
    IF ~authn.ok THEN authn ELSE Ok([authn |-> authn.val]))

IncomingRequestProperties_deserialize(members) ==
  Let2(StructStrings(members, <<"method", "correlation_data", "response_topic">>),
       AuthnProperties_deserialize_flatten(members), LAMBDA own, authn :
    IF ~own.ok THEN own
    ELSE IF ~authn.ok THEN authn
    ELSE Ok([method |-> own.val["method"].val,
             correlation_data |-> own.val["correlation_data"].val,
             response_topic |-> own.val["response_topic"].val,
             authn |-> authn.val]))

IncomingResponseProperties_deserialize(members) ==
  Let2(StructStrings(members, <<"correlation_data">>),
       AuthnProperties_deserialize_flatten(members), LAMBDA own, authn :
    IF ~own.ok THEN own
    ELSE IF ~authn.ok THEN authn
    ELSE Ok([correlation_data |-> own.val["correlation_data"].val,
             authn |-> authn.val]))

\* compat::IncomingEnvelopeProperties, #[serde(tag = "type")]: the members
\* are read in order, the first tag is read as a variant name where it
\* stands, a second tag fails as a duplicate field whatever its value, and
\* the other members are kept for the variant the tag picks.
IncomingEnvelopeProperties_deserialize(members) ==
  Let2(TakeFields(members, {"type"}), DropFields(members, {"type"}), LAMBDA tags, rest :
    Let(IF tags = <<>> THEN Err(MissingField("type")) ELSE next_value(tags[1]), LAMBDA tag :
      IF ~tag.ok THEN tag
      ELSE IF tag.val \notin {<<"event">>, <<"request">>, <<"response">>}
      THEN Err([kind |-> "UnknownVariant", field |-> "type"])
      ELSE IF Len(tags) > 1 THEN Err(DuplicateField("type"))
      ELSE IF tag.val = <<"event">>
      THEN Let(IncomingEventProperties_deserialize(rest), LAMBDA p :
             IF p.ok THEN Ok(EventProps(p.val)) ELSE p)
      ELSE IF tag.val = <<"request">>
      THEN Let(IncomingRequestProperties_deserialize(rest), LAMBDA p :
             IF p.ok THEN Ok(RequestProps(p.val)) ELSE p)
      ELSE Let(IncomingResponseProperties_deserialize(rest), LAMBDA p :
             IF p.ok THEN Ok(ResponseProps(p.val)) ELSE p)))

\* compat::IncomingEnvelope: the members in order; a repeated field fails
\* where it repeats, a missing one after the last member.
RECURSIVE IncomingEnvelope_visit(_, _)
IncomingEnvelope_visit(object, locals) ==
  Let2(object, locals, LAMBDA members, st :
    IF members = <<>> THEN Ok(st)
    ELSE Let(Head(members), LAMBDA m :
           IF m.key = "payload"
           THEN IF st.payload.some THEN Err(DuplicateField("payload"))
                ELSE Let(next_value(m), LAMBDA v :
                       IF ~v.ok THEN v
                       ELSE IncomingEnvelope_visit(Tail(members),
                                                   [st EXCEPT !.payload = Some(v.val)]))
           ELSE IF m.key = "properties"
           THEN IF st.properties.some THEN Err(DuplicateField("properties"))
                ELSE IF m.value.node # "object" THEN Err(InvalidType("properties"))
                ELSE Let(IncomingEnvelopeProperties_deserialize(m.value.members), LAMBDA v :
                       IF ~v.ok THEN v
                       ELSE IncomingEnvelope_visit(Tail(members),
                                                   [st EXCEPT !.properties = Some(v.val)]))
           ELSE IncomingEnvelope_visit(Tail(members), st)))

\* serde_json::from_slice::<compat::IncomingEnvelope>(bytes)
IncomingEnvelope_deserialize(bytes) ==
  Let(IncomingEnvelope_visit(bytes, [payload |-> None, properties |-> None]), LAMBDA st :
    IF ~st.ok THEN st
    ELSE IF ~st.val.payload.some THEN Err(MissingField("payload"))
    ELSE IF ~st.val.properties.some THEN Err(MissingField("properties"))
    ELSE Ok([payload |-> st.val.payload.val, properties |-> st.val.properties.val]))

----------------------------------------------------------------------------
(* Incoming messages *)

IncomingMessage_new(payload, properties) == [payload |-> payload, properties |-> properties]

RoleMismatch(requested, properties) ==
  [kind |-> "RoleMismatch", requested |-> requested, found |-> properties.type]

\* IncomingEnvelope::payload::<T>()
IncomingEnvelope_payload(self, T) == from_str(T, self.payload)

\* compat::into_event / into_request / into_response: the payload is
\* deserialized first, the role tag is matched after.
into_event(T, envelope) ==
  Let(IncomingEnvelope_payload(envelope, T), LAMBDA payload :
    IF ~payload.ok THEN payload
    ELSE IF envelope.properties.type = "event"
    THEN Ok(IncomingMessage_new(payload.val, envelope.properties.props))
    ELSE Err(RoleMismatch("event", envelope.properties)))

into_request(T, envelope) ==
  Let(IncomingEnvelope_payload(envelope, T), LAMBDA payload :
    IF ~payload.ok THEN payload
    ELSE IF envelope.properties.type = "request"
    THEN Ok(IncomingMessage_new(payload.val, envelope.properties.props))
    ELSE Err(RoleMismatch("request", envelope.properties)))

into_response(T, envelope) ==
  Let(IncomingEnvelope_payload(envelope, T), LAMBDA payload :
    IF ~payload.ok THEN payload
    ELSE IF envelope.properties.type = "response"
    THEN Ok(IncomingMessage_new(payload.val, envelope.properties.props))
    ELSE Err(RoleMismatch("response", envelope.properties)))

\* to_response with no explicit topic handed on.
IncomingRequestProperties_to_response_no_topic(self, status) ==
  OutgoingResponseProperties_new(status, self.correlation_data, None)

\* to_response with its two string arguments exchanged.
IncomingRequestProperties_to_response_swapped(self, status) ==
  OutgoingResponseProperties_new(status, self.response_topic, Some(self.correlation_data))

\* IncomingRequestProperties::to_response
IncomingRequestProperties_to_response(self, status) ==
  OutgoingResponseProperties_new(status, self.correlation_data, Some(self.response_topic))

\* IncomingRequest::to_response
IncomingRequest_to_response(self, data, status) ==
  OutgoingMessage_new(data,
                      IncomingRequestProperties_to_response(self.properties, status),
                      Unicast(agent_id(self.properties.authn)))

----------------------------------------------------------------------------
(* Inputs *)

AccountIds ==
  { AccountId_new(<<"svc">>, <<"example.org">>),
    AccountId_new(<<"usr">>, <<"example.net">>) }

AgentIds ==
  { AgentId_new(<<"web">>, AccountId_new(<<"svc">>, <<"example.org">>)),
    AgentId_new(<<"alpha">>, AccountId_new(<<"svc">>, <<"example.org">>)),
    AgentId_new(<<"beta">>, AccountId_new(<<"usr">>, <<"example.net">>)) }

\* An AgentId seen through Addressable (agent_id() is the id itself).
AsAddressable(id) == [agent_id |-> id]

Uris == { <<"rooms", "/", "123", "/", "events">> }
ResponseTopics == { <<"custom", "/", "reply">> }
CorrelationData == { <<"c1">>, <<"c", "\"", "2">> }
Methods == { <<"room.create">> }
Statuses == { 200, 404 }
SharedGroups == { <<"loadbalancer">> }
QoSs == { "AtMostOnce", "AtLeastOnce" }

Destinations ==
  { Broadcast(uri) : uri \in Uris }
  \cup { Multicast(a) : a \in AccountIds }
  \cup { Unicast(g) : g \in AgentIds }

Sources ==
  { SourceBroadcast(AsAddressable(g), uri) : g \in AgentIds, uri \in Uris }
  \cup { SourceMulticast }
  \cup { SourceUnicast(None) }
  \cup { SourceUnicast(Some(AsAddressable(g))) : g \in AgentIds }

\* EventSubscription / RequestSubscription / ResponseSubscription.
Subscriptions == [role : {"event", "request", "response"}, source : Sources]

Payloads ==
  { JNull, JBool(TRUE), JNum(7), JNum(42), JStr(<<>>), JStr(<<"hello">>),
    JStr(<<"say ", "\"", "hi", "\"">>), JStr(<<"a", "\\", "b", "/", "c">>),
    JStr(<<"null">>), JBadMap }

PayloadTypes == { "unit", "bool", "u64", "String" }

OutgoingEventPropertiesSet == { OutgoingEventProperties_new(<<"room.enter">>) }

OutgoingRequestPropertiesSet ==
  { OutgoingRequestProperties_new(m, rt, authn, c) :
      m \in Methods, rt \in ResponseTopics,
      authn \in {None} \cup { Some(AuthnProperties_from(g)) : g \in AgentIds },
      c \in CorrelationData }

OutgoingResponsePropertiesSet ==
  { OutgoingResponseProperties_new(st, c, rt) :
      st \in Statuses, c \in CorrelationData,
      rt \in {None} \cup { Some(t) : t \in ResponseTopics } }

\* The outgoing messages, each with the role of its properties type.
OutgoingMessages ==
  [role : {"event"},
   msg : { OutgoingMessage_new(p, props, d) :
             p \in Payloads, props \in OutgoingEventPropertiesSet, d \in Destinations }]
  \cup
  [role : {"request"},
   msg : { OutgoingMessage_new(p, props, d) :
             p \in Payloads, props \in OutgoingRequestPropertiesSet, d \in Destinations }]
  \cup
  [role : {"response"},
   msg : { OutgoingMessage_new(p, props, d) :
             p \in Payloads, props \in OutgoingResponsePropertiesSet, d \in Destinations }]

\* IntoEnvelope::into_envelope, by the message's type.
into_envelope(m) ==
  CASE m.role = "event" -> OutgoingEvent_into_envelope(m.msg)
    [] m.role = "request" -> OutgoingRequest_into_envelope(m.msg)
    [] m.role = "response" -> OutgoingResponse_into_envelope(m.msg)

----------------------------------------------------------------------------
(* The Agent and the MQTT client behind it *)

\* What a call on the MQTT client (self.tx) returns.
TransportOutcomes == { Ok(<<>>), Err([kind |-> "ClientError", detail |-> "connection closed"]) }

\* The envelopes the Agent is given to publish.
PublishableEnvelopes ==
  { into_envelope(m).val :
      m \in { x \in OutgoingMessages :
                /\ x.msg.payload = JStr(<<"hello">>)
                /\ (x.role # "event" => x.msg.properties.correlation_data = <<"c1">>)
                /\ (x.role = "request" => ~x.msg.properties.authn.some)
                /\ (x.role = "response" => x.msg.properties.status = 200) } }

\* The shared group's prefix with its two arguments exchanged.
shared_topic_swapped(topic, maybe_group) ==
  IF maybe_group.some
  THEN Format(<<<<"$share", "/">>, topic, <<"/">>, SharedGroup_to_string(maybe_group.val)>>)
  ELSE topic

\* Agent::subscribe, `if let Some(ref group) = maybe_group`: the topic handed
\* to the client.
shared_topic(topic, maybe_group) ==
  IF maybe_group.some
  THEN Format(<<<<"$share", "/">>, SharedGroup_to_string(maybe_group.val), <<"/">>, topic>>)
  ELSE topic

\* Agent::publish as a function of the agent's id, the calls the client has
\* received, the message and what the client's publish returns.
Agent_publish(id, client, message, outcome) ==
  Let(OutgoingEnvelope_destination_topic(message, AsAddressable(id)), LAMBDA topic :
    IF ~topic.ok
    THEN [tx |-> client, steps |-> <<"destination_topic">>, result |-> Err(topic.err)]
    ELSE Let(OutgoingEnvelope_to_bytes(message), LAMBDA bytes :
      IF ~bytes.ok
      THEN [tx |-> client, steps |-> <<"destination_topic", "to_bytes">>,
            result |-> Err(bytes.err)]
      ELSE [tx |-> Append(client, [call |-> "publish", topic |-> topic.val,
                                   qos |-> "AtLeastOnce", retain |-> FALSE,
                                   bytes |-> bytes.val]),
            steps |-> <<"destination_topic", "to_bytes", "tx.publish">>,
            result |-> IF outcome.ok THEN Ok(<<>>)
                       ELSE Err([kind |-> "Message",
                                 msg |-> "Error publishing an MQTT message"])]))

Init ==
  /\ agent \in AgentIds
  /\ tx = <<>>
  /\ ret = [op |-> "none"]

\* Agent::publish: the topic, then the bytes, then the client's publish.
AgentPublish ==
  \E message \in PublishableEnvelopes, outcome \in TransportOutcomes :
    /\ Len(tx) < MaxTx
    /\ LET topic == OutgoingEnvelope_destination_topic(message, AsAddressable(agent))
           bytes == OutgoingEnvelope_to_bytes(message)
       IN IF ~topic.ok
          THEN /\ tx' = tx
               /\ ret' = [op |-> "publish", message |-> message, topic |-> topic,
                          result |-> Err(topic.err)]
          ELSE IF ~bytes.ok
          THEN /\ tx' = tx
               /\ ret' = [op |-> "publish", message |-> message, topic |-> topic,
                          result |-> Err(bytes.err)]
          ELSE /\ tx' = Append(tx, [call |-> "publish", topic |-> topic.val,
                                    qos |-> "AtLeastOnce", retain |-> FALSE,
                                    bytes |-> bytes.val])
               /\ ret' = [op |-> "publish", message |-> message, topic |-> topic,
                          result |-> IF outcome.ok THEN Ok(<<>>)
                                     ELSE Err([kind |-> "Message",
                                               msg |-> "Error publishing an MQTT message"])]
    /\ UNCHANGED agent

\* Agent::subscribe: the pattern, the shared group's prefix, then the
\* client's subscribe, whose error is returned as it is.
AgentSubscribe ==
  \E subscription \in Subscriptions, qos \in QoSs,
     maybe_group \in {None} \cup { Some(g) : g \in SharedGroups },
     outcome \in TransportOutcomes :
    /\ Len(tx) < MaxTx
    /\ LET resolved == subscription_topic(subscription, AsAddressable(agent))
           topic == shared_topic(resolved.val, maybe_group)
       IN IF ~resolved.ok
          THEN /\ tx' = tx
               /\ ret' = [op |-> "subscribe", subscription |-> subscription,
                          qos |-> qos, maybe_group |-> maybe_group,
                          topic |-> resolved, result |-> Err(resolved.err)]
          ELSE /\ tx' = Append(tx, [call |-> "subscribe", topic |-> topic, qos |-> qos])
               /\ ret' = [op |-> "subscribe", subscription |-> subscription,
                          qos |-> qos, maybe_group |-> maybe_group,
                          topic |-> resolved,
                          result |-> IF outcome.ok THEN Ok(<<>>) ELSE Err(outcome.err)]
    /\ UNCHANGED agent

Next == AgentPublish \/ AgentSubscribe

Spec == Init /\ [][Next]_vars

----------------------------------------------------------------------------
(* The envelope codec, step by step: a message is turned into an envelope,  *)
(* the envelope into bytes, bytes into an incoming envelope, the incoming   *)
(* envelope into a typed message, a request into its response.  Each        *)
(* behaviour follows one message or one delivered envelope.                 *)

\* Payload strings as they arrive: the JSON text of the payloads, and text
\* that is no JSON.
PayloadTexts ==
  { to_string(p).val : p \in Payloads \ {JBadMap} }
  \cup { <<"oops">>, <<"\"", "unterminated">> }

\* Incoming envelopes as the broker delivers them (authn filled in).
IncomingEnvelopes ==
  [payload : PayloadTexts,
   properties :
     { EventProps([authn |-> AuthnProperties_from(g)]) : g \in AgentIds }
     \cup { RequestProps([method |-> m, correlation_data |-> c, response_topic |-> rt,
                          authn |-> AuthnProperties_from(g)]) :
              m \in Methods, c \in CorrelationData, rt \in ResponseTopics, g \in AgentIds }
     \cup { ResponseProps([correlation_data |-> c, authn |-> AuthnProperties_from(g)]) :
              c \in CorrelationData, g \in AgentIds }]

IntoEnvelope ==
  \E m \in OutgoingMessages :
    /\ ret.op = "none"
    /\ ret' = [op |-> "into_envelope", sent |-> m, envelope |-> into_envelope(m)]
    /\ UNCHANGED <<agent, tx>>

ToBytes ==
  /\ ret.op = "into_envelope"
  /\ ret.envelope.ok
  /\ ret' = [op |-> "to_bytes", sent |-> ret.sent,
             bytes |-> OutgoingEnvelope_to_bytes(ret.envelope.val)]
  /\ UNCHANGED <<agent, tx>>

FromBytes ==
  /\ ret.op = "to_bytes"
  /\ ret.bytes.ok
  /\ ret' = [op |-> "from_bytes", sent |-> Some(ret.sent),
             envelope |-> IncomingEnvelope_deserialize(ret.bytes.val)]
  /\ UNCHANGED <<agent, tx>>

Receive ==
  \E envelope \in IncomingEnvelopes :
    /\ ret.op = "none"
    /\ ret' = [op |-> "from_bytes", sent |-> None, envelope |-> Ok(envelope)]
    /\ UNCHANGED <<agent, tx>>

IntoEvent ==
  \E T \in PayloadTypes :
    /\ ret.op = "from_bytes"
    /\ ret.envelope.ok
    /\ ret' = [op |-> "into_event", T |-> T, sent |-> ret.sent,
               envelope |-> ret.envelope.val,
               result |-> into_event(T, ret.envelope.val)]
    /\ UNCHANGED <<agent, tx>>

IntoRequest ==
  \E T \in PayloadTypes :
    /\ ret.op = "from_bytes"
    /\ ret.envelope.ok
    /\ ret' = [op |-> "into_request", T |-> T, sent |-> ret.sent,
               envelope |-> ret.envelope.val,
               result |-> into_request(T, ret.envelope.val)]
    /\ UNCHANGED <<agent, tx>>

IntoResponse ==
  \E T \in PayloadTypes :
    /\ ret.op = "from_bytes"
    /\ ret.envelope.ok
    /\ ret' = [op |-> "into_response", T |-> T, sent |-> ret.sent,
               envelope |-> ret.envelope.val,
               result |-> into_response(T, ret.envelope.val)]
    /\ UNCHANGED <<agent, tx>>

ToResponse ==
  \E data \in {JNull, JStr(<<"done">>)}, status \in Statuses :
    /\ ret.op = "into_request"
    /\ ret.result.ok
    /\ ret' = [op |-> "to_response", request |-> ret.result.val,
               response |-> IncomingRequest_to_response(ret.result.val, data, status)]
    /\ UNCHANGED <<agent, tx>>

\* The response is turned into an envelope and published by the agent.
PublishResponse ==
  \E outcome \in TransportOutcomes :
    /\ ret.op = "to_response"
    /\ LET envelope == OutgoingResponse_into_envelope(ret.response)
       IN IF ~envelope.ok
          THEN /\ tx' = tx
               /\ ret' = [op |-> "publish_response", request |-> ret.request,
                          response |-> ret.response, result |-> Err(envelope.err)]
          ELSE LET r == Agent_publish(agent, tx, envelope.val, outcome)
               IN /\ tx' = r.tx
                  /\ ret' = [op |-> "publish_response", request |-> ret.request,
                             response |-> ret.response, result |-> r.result]
    /\ UNCHANGED agent

NextCodec ==
  \/ IntoEnvelope
  \/ ToBytes
  \/ FromBytes
  \/ Receive
  \/ IntoEvent
  \/ IntoRequest
  \/ IntoResponse
  \/ ToResponse
  \/ PublishResponse

SpecCodec == Init /\ [][NextCodec]_vars

----------------------------------------------------------------------------
(* AuthnProperties read from a JSON object of its own *)

\* Longest JSON object handed to AuthnProperties::deserialize.
MaxKeys == 4

AuthnKeys == { "agent_label", "account_label", "audience", "nickname" }
AuthnValues == { <<"a">>, <<"b">> }

AuthnObjects ==
  UNION { [1..n -> { Member(k, StringNode(v)) : k \in AuthnKeys, v \in AuthnValues }] :
            n \in 0..MaxKeys }

AuthnDeserialize ==
  \E map \in AuthnObjects :
    /\ ret.op = "none"
    /\ ret' = [op |-> "authn_deserialize", map |-> map,
               result |-> AuthnProperties_deserialize(map)]
    /\ UNCHANGED <<agent, tx>>

NextAuthn == AuthnDeserialize

\* The deserializer reads no field of the agent: one agent stands for all.
InitAuthn ==
  /\ Init
  /\ agent = AgentId_new(<<"web">>, AccountId_new(<<"svc">>, <<"example.org">>))

SpecAuthn == InitAuthn /\ [][NextAuthn]_vars

----------------------------------------------------------------------------
(* Publish::publish on one message, a pair and a Vec.  An operation returns *)
(* the client's calls after it, the steps it took (each with the index of   *)
(* the message it was taken for) and its result.  Each behaviour follows    *)
(* one operation on a client that has received nothing yet.                 *)

\* Longest Vec handed to Publish::publish.
MaxBatch == 2

\* The steps of one Agent::publish, marked with the message's index.
StepsOf(steps, index) == [j \in 1..Len(steps) |-> [step |-> steps[j], index |-> index]]

\* impl Publish for T: tx.publish(self)?; Ok(())
Publish_publish(self, id, client, outcome) ==
  Let(Agent_publish(id, client, self, outcome), LAMBDA r :
    [tx |-> r.tx, log |-> StepsOf(r.steps, 0), result |-> r.result])

\* impl Publish for (T1, T2): tx.publish(&self.0)?; tx.publish(&self.1)?; Ok(())
Pair_publish(self, id, client, outcomes) ==
  Let(Agent_publish(id, client, self[1], outcomes[1]), LAMBDA first :
    IF ~first.result.ok
    THEN [tx |-> first.tx, log |-> StepsOf(first.steps, 0), result |-> first.result]
    ELSE Let(Agent_publish(id, first.tx, self[2], outcomes[2]), LAMBDA second :
      [tx |-> second.tx,
       log |-> StepsOf(first.steps, 0) \o StepsOf(second.steps, 1),
       result |-> second.result]))

\* The Vec's loop with the failing message skipped and the loop carried on.
RECURSIVE Vec_publish_loop_carry_on(_, _, _, _, _)
Vec_publish_loop_carry_on(self, index, id, done, outcomes) ==
  IF index >= Len(self)
  THEN done
  ELSE Let(Agent_publish(id, done.tx, self[index + 1], outcomes[index + 1]), LAMBDA r :
         Vec_publish_loop_carry_on(self, index + 1, id,
           [tx |-> r.tx, log |-> done.log \o StepsOf(r.steps, index),
            result |-> IF done.result.ok THEN r.result ELSE done.result],
           outcomes))

\* impl Publish for Vec<T>, `for msg in self { tx.publish(msg)?; }`: the
\* iterations from `index` on.
RECURSIVE Vec_publish_loop(_, _, _, _, _)
Vec_publish_loop(self, index, id, done, outcomes) ==
  IF index >= Len(self)
  THEN done
  ELSE Let(Agent_publish(id, done.tx, self[index + 1], outcomes[index + 1]), LAMBDA r :
         IF ~r.result.ok
         THEN [tx |-> r.tx, log |-> done.log \o StepsOf(r.steps, index), result |-> r.result]
         ELSE Vec_publish_loop(self, index + 1, id,
                [tx |-> r.tx, log |-> done.log \o StepsOf(r.steps, index),
                 result |-> done.result],
                outcomes))

\* impl Publish for Vec<T>
Vec_publish(self, id, client, outcomes) ==
  Vec_publish_loop(self, 0, id, [tx |-> client, log |-> <<>>, result |-> Ok(<<>>)], outcomes)

\* The envelopes handed to Publish::publish: for each role one destination
\* of each kind.
BatchEnvelopes ==
  { e \in PublishableEnvelopes :
      /\ e.destination \in
           { Broadcast(<<"rooms", "/", "123", "/", "events">>),
             Multicast(AccountId_new(<<"svc">>, <<"example.org">>)),
             Unicast(AgentId_new(<<"beta">>, AccountId_new(<<"usr">>, <<"example.net">>))) }
      /\ e.properties.type = "request" => e.properties.props.method = <<"room.create">>
      /\ e.properties.type = "response" => ~e.properties.props.response_topic.some }

PublishOne ==
  \E message \in BatchEnvelopes, outcome \in TransportOutcomes :
    /\ ret.op = "none"
    /\ LET r == Publish_publish(message, agent, tx, outcome)
       IN /\ tx' = r.tx
          /\ ret' = [op |-> "publish_one", messages |-> <<message>>,
                     outcomes |-> <<outcome>>, log |-> r.log, result |-> r.result]
    /\ UNCHANGED agent

PublishPair ==
  \E first \in BatchEnvelopes, second \in BatchEnvelopes,
     outcomes \in [1..2 -> TransportOutcomes] :
    /\ ret.op = "none"
    /\ LET r == Pair_publish(<<first, second>>, agent, tx, outcomes)
       IN /\ tx' = r.tx
          /\ ret' = [op |-> "publish_pair", messages |-> <<first, second>>,
                     outcomes |-> outcomes, log |-> r.log, result |-> r.result]
    /\ UNCHANGED agent

PublishVec ==
  \E n \in 0..MaxBatch :
    \E messages \in [1..n -> BatchEnvelopes], outcomes \in [1..n -> TransportOutcomes] :
      /\ ret.op = "none"
      /\ LET r == Vec_publish(messages, agent, tx, outcomes)
         IN /\ tx' = r.tx
            /\ ret' = [op |-> "publish_vec", messages |-> messages,
                       outcomes |-> outcomes, log |-> r.log, result |-> r.result]
      /\ UNCHANGED agent

NextBatch == PublishOne \/ PublishPair \/ PublishVec

SpecBatch == Init /\ [][NextBatch]_vars

----------------------------------------------------------------------------
(* Topic resolution on its own: a sender resolves the publish topic of its  *)
(* properties and destination, then a receiver resolves the pattern of a    *)
(* subscription.                                                            *)

TopicAgents ==
  AgentIds
  \cup { AgentId_new(<<"web">>, AccountId_new(<<"svc">>, <<"usr01.svc.example.org">>)),
         AgentId_new(<<"web">>, AccountId_new(<<"usr02">>, <<"example.org">>)),
         AgentId_new(<<"mobile">>, AccountId_new(<<"usr02">>, <<"example.org">>)) }

TopicAccounts == { g.account_id : g \in TopicAgents }

TopicDestinations ==
  { Broadcast(uri) : uri \in Uris }
  \cup { Multicast(a) : a \in TopicAccounts }
  \cup { Unicast(g) : g \in TopicAgents }

TopicSources ==
  { SourceBroadcast(AsAddressable(g), uri) : g \in TopicAgents, uri \in Uris }
  \cup { SourceMulticast }
  \cup { SourceUnicast(None) }
  \cup { SourceUnicast(Some(AsAddressable(g))) : g \in TopicAgents }

TopicSubscriptions == [role : {"event", "request", "response"}, source : TopicSources]

TopicProperties ==
  { EventProps(p) : p \in OutgoingEventPropertiesSet }
  \cup { RequestProps(OutgoingRequestProperties_new(<<"room.create">>, rt, None, <<"c1">>)) :
           rt \in ResponseTopics }
  \cup { ResponseProps(OutgoingResponseProperties_new(200, <<"c1">>, rt)) :
           rt \in {None} \cup { Some(t) : t \in ResponseTopics } }

InitTopic ==
  /\ agent \in TopicAgents
  /\ tx = <<>>
  /\ ret = [op |-> "none"]

ResolveDestination ==
  \E properties \in TopicProperties, destination \in TopicDestinations :
    /\ ret.op = "none"
    /\ ret' = [op |-> "destination_topic", properties |-> properties,
               destination |-> destination,
               topic |-> OutgoingEnvelopeProperties_destination_topic(
                           properties, AsAddressable(agent), destination)]
    /\ UNCHANGED <<agent, tx>>

ResolveSubscription ==
  \E receiver \in TopicAgents, subscription \in TopicSubscriptions :
    /\ ret.op = "destination_topic"
    /\ ret.topic.ok
    /\ ret' = [op |-> "subscription_topic", properties |-> ret.properties,
               destination |-> ret.destination, topic |-> ret.topic,
               receiver |-> receiver, subscription |-> subscription,
               pattern |-> subscription_topic(subscription, AsAddressable(receiver))]
    /\ UNCHANGED <<agent, tx>>

NextTopic == ResolveDestination \/ ResolveSubscription

SpecTopic == InitTopic /\ [][NextTopic]_vars

----------------------------------------------------------------------------
(* Properties of Agent::publish and the DestinationTopic implementations,
   checked under Spec *)

\* The account and agent names as they appear in a topic.
AccountName(id) == AccountId_to_string(id)
AgentName(id) == AgentId_to_string(id)

\* The properties' kind as the error names it, and the kind's own properties.
PublishedKind == ret.message.properties.type
PublishedProps == ret.message.properties.props
PublishedDest == ret.message.destination

\* A response's explicit topic is set.
ExplicitTopic == PublishedKind = "response" /\ PublishedProps.response_topic.some

\* The pair (kind of properties, destination) is one of the four legal rows.
LegalDestination ==
  \/ PublishedKind = "event" /\ PublishedDest.tag = "Broadcast"
  \/ PublishedKind = "request" /\ PublishedDest.tag \in {"Unicast", "Multicast"}
  \/ PublishedKind = "response" /\ PublishedDest.tag = "Unicast"

\* C1: for each legal pair of outgoing properties and destination (a response
\* without an explicit topic), the resolved topic is exactly the row of the
\* table: an event to Broadcast(uri) goes to apps/{me.account}/api/v1/{uri},
\* a request to Unicast(agent) to agents/{agent}/api/v1/in/{me.account}, a
\* request to Multicast(account) to agents/{me.agent}/api/v1/out/{account},
\* a response to Unicast(agent) to agents/{agent}/api/v1/in/{me.account};
\* an agent of account svc.example.org broadcasting to rooms/123/events
\* resolves apps/svc.example.org/api/v1/rooms/123/events.
C1_DestinationTopicTable ==
  ret.op = "publish" =>
    /\ (PublishedKind = "event" /\ PublishedDest.tag = "Broadcast") =>
         ret.topic = Ok(<<"apps", "/">> \o AccountName(agent.account_id)
                        \o <<"/", "api", "/", "v1", "/">> \o PublishedDest.uri)
    /\ (PublishedKind = "request" /\ PublishedDest.tag = "Unicast") =>
         ret.topic = Ok(<<"agents", "/">> \o AgentName(PublishedDest.agent_id)
                        \o <<"/", "api", "/", "v1", "/", "in", "/">>
                        \o AccountName(agent.account_id))
    /\ (PublishedKind = "request" /\ PublishedDest.tag = "Multicast") =>
         ret.topic = Ok(<<"agents", "/">> \o AgentName(agent)
                        \o <<"/", "api", "/", "v1", "/", "out", "/">>
                        \o AccountName(PublishedDest.account_id))
    /\ (PublishedKind = "response" /\ ~ExplicitTopic /\ PublishedDest.tag = "Unicast") =>
         ret.topic = Ok(<<"agents", "/">> \o AgentName(PublishedDest.agent_id)
                        \o <<"/", "api", "/", "v1", "/", "in", "/">>
                        \o AccountName(agent.account_id))
    /\ (/\ PublishedKind = "event"
        /\ PublishedDest = Broadcast(<<"rooms", "/", "123", "/", "events">>)
        /\ AccountName(agent.account_id) = <<"svc.example.org">>) =>
         ret.topic = Ok(<<"apps", "/", "svc.example.org", "/", "api", "/", "v1",
                          "/", "rooms", "/", "123", "/", "events">>)

\* A request was published to Multicast by an agent of another account, and
\* the transport received it on the resolved topic.
C1_Witness ==
  /\ ret.op = "publish"
  /\ PublishedKind = "request"
  /\ PublishedDest.tag = "Multicast"
  /\ PublishedDest.account_id # agent.account_id
  /\ ret.topic.ok
  /\ tx # <<>>
  /\ tx[Len(tx)].topic = ret.topic.val

\* C2: for every other pair (an event to Multicast or Unicast, a request to
\* Broadcast, a response without an explicit topic to Broadcast or
\* Multicast), resolution fails with IncompatibleDestination naming the kind
\* of properties and the destination, and publish returns that error.
C2_IncompatibleDestination ==
  (ret.op = "publish" /\ ~LegalDestination /\ ~ExplicitTopic) =>
    /\ ~ret.topic.ok
    /\ ret.topic.err.kind = "IncompatibleDestination"
    /\ ret.topic.err.role = PublishedKind
    /\ ret.topic.err.dest = PublishedDest
    /\ ret.result = Err(ret.topic.err)

\* An event was addressed to Multicast and publish returned the error.
C2_Witness ==
  /\ ret.op = "publish"
  /\ PublishedKind = "event"
  /\ PublishedDest.tag = "Multicast"
  /\ ~ret.result.ok
  /\ ret.result.err.kind = "IncompatibleDestination"

\* C3: a response whose properties carry an explicit response_topic resolves
\* to that string verbatim, whatever the destination and the agent.
C3_ExplicitResponseTopic ==
  (ret.op = "publish" /\ ExplicitTopic) =>
    ret.topic = Ok(PublishedProps.response_topic.val)

\* A response with an explicit topic was published to a Broadcast
\* destination and reached the transport on the explicit topic.
C3_Witness ==
  /\ ret.op = "publish"
  /\ ExplicitTopic
  /\ PublishedDest.tag = "Broadcast"
  /\ tx # <<>>
  /\ tx[Len(tx)].call = "publish"
  /\ tx[Len(tx)].topic = PublishedProps.response_topic.val

----------------------------------------------------------------------------
(* Properties of Agent::subscribe and the SubscriptionTopic implementations,
   checked under Spec *)

SubscribedRole == ret.subscription.role
SubscribedSource == ret.subscription.source

\* The pair (subscription role, source) is one of the legal rows.
LegalSource ==
  \/ SubscribedRole = "event" /\ SubscribedSource.tag = "Broadcast"
  \/ SubscribedRole = "request" /\ SubscribedSource.tag \in {"Multicast", "Unicast"}
  \/ SubscribedRole = "response" /\ SubscribedSource.tag = "Unicast"

\* C4: for each legal pair of subscription role and source the resolved
\* pattern is exactly the row of the table: an event subscription to
\* Broadcast(from, uri) gives apps/{from.account}/api/v1/{uri} whoever
\* subscribes, a request subscription to Multicast gives
\* agents/+/api/v1/out/{me.account}, a request or response subscription to
\* Unicast(Some(from)) gives agents/{me.agent}/api/v1/in/{from.account} and
\* to Unicast(None) gives agents/{me.agent}/api/v1/in/+.
C4_SubscriptionTopicTable ==
  ret.op = "subscribe" =>
    /\ (SubscribedRole = "event" /\ SubscribedSource.tag = "Broadcast") =>
         ret.topic = Ok(<<"apps", "/">> \o AccountName(account_id(SubscribedSource.from))
                        \o <<"/", "api", "/", "v1", "/">> \o SubscribedSource.uri)
    /\ (SubscribedRole = "request" /\ SubscribedSource.tag = "Multicast") =>
         ret.topic = Ok(<<"agents", "/", "+", "/", "api", "/", "v1", "/", "out", "/">>
                        \o AccountName(agent.account_id))
    /\ (/\ SubscribedRole \in {"request", "response"}
        /\ SubscribedSource.tag = "Unicast"
        /\ SubscribedSource.from.some) =>
         ret.topic = Ok(<<"agents", "/">> \o AgentName(agent)
                        \o <<"/", "api", "/", "v1", "/", "in", "/">>
                        \o AccountName(account_id(SubscribedSource.from.val)))
    /\ (/\ SubscribedRole \in {"request", "response"}
        /\ SubscribedSource.tag = "Unicast"
        /\ ~SubscribedSource.from.some) =>
         ret.topic = Ok(<<"agents", "/">> \o AgentName(agent)
                        \o <<"/", "api", "/", "v1", "/", "in", "/", "+">>)

\* A request subscription to Multicast was resolved and handed to the
\* transport.
C4_Witness ==
  /\ ret.op = "subscribe"
  /\ SubscribedRole = "request"
  /\ SubscribedSource.tag = "Multicast"
  /\ ret.topic.ok
  /\ tx # <<>>
  /\ tx[Len(tx)].call = "subscribe"

\* C5: an event subscription to Multicast or Unicast, a request subscription
\* to Broadcast and a response subscription to Broadcast or Multicast fail
\* with IncompatibleSource naming the subscription role and the source, and
\* subscribe returns that error.
C5_IncompatibleSource ==
  (ret.op = "subscribe" /\ ~LegalSource) =>
    /\ ~ret.topic.ok
    /\ ret.topic.err.kind = "IncompatibleSource"
    /\ ret.topic.err.role = SubscribedRole
    /\ ret.topic.err.source = SubscribedSource
    /\ ret.result = Err(ret.topic.err)

\* A response subscription to Multicast was refused.
C5_Witness ==
  /\ ret.op = "subscribe"
  /\ SubscribedRole = "response"
  /\ SubscribedSource.tag = "Multicast"
  /\ ~ret.result.ok
  /\ ret.result.err.kind = "IncompatibleSource"

\* C6: every call of Agent::subscribe whose pattern resolves hands the
\* transport exactly one subscription, to $share/{group}/{pattern} when a
\* shared group is given and to {pattern} itself when none is, with the
\* caller's QoS; when the pattern does not resolve the transport is not
\* called at all.
C6_SubscribeHandsTopic ==
  [][(ret'.op = "subscribe" /\ vars' # vars) =>
       IF ret'.topic.ok
       THEN tx' = Append(tx, [call |-> "subscribe",
                              topic |-> IF ret'.maybe_group.some
                                        THEN <<"$share", "/">> \o ret'.maybe_group.val
                                             \o <<"/">> \o ret'.topic.val
                                        ELSE ret'.topic.val,
                              qos |-> ret'.qos])
       ELSE tx' = tx]_vars

\* A subscription with a shared group reached the transport.
C6_Witness ==
  /\ ret.op = "subscribe"
  /\ ret.maybe_group.some
  /\ ret.topic.ok
  /\ tx # <<>>
  /\ tx[Len(tx)].call = "subscribe"
  /\ tx[Len(tx)].topic[1] = "$share"

----------------------------------------------------------------------------
(* Properties of the envelope codec, checked under SpecCodec *)

\* C7: every step that answers an incoming request with to_response(data,
\* status) yields an outgoing response whose correlation_data is the
\* request's correlation_data verbatim and whose destination is Unicast to
\* the agent id of the request's sender, and the request it was built from
\* is the request as it was before the call.
C7_ToResponse ==
  [][(ret.op = "into_request" /\ ret'.op = "to_response") =>
       /\ ret'.request = ret.result.val
       /\ ret'.response.properties.correlation_data
            = ret.result.val.properties.correlation_data
       /\ ret'.response.destination
            = [tag |-> "Unicast", agent_id |-> ret.result.val.properties.authn.agent_id]]_vars

\* A request whose correlation data holds a quote, sent by an agent of
\* another account than the receiver's, was answered.
C7_Witness ==
  /\ ret.op = "to_response"
  /\ ret.request.properties.correlation_data = <<"c", "\"", "2">>
  /\ ret.request.properties.authn.agent_id.account_id # agent.account_id
  /\ ret.response.destination.tag = "Unicast"

\* The message a codec behaviour started from is a request that carries
\* AuthnProperties.
SentRequestWithAuthn ==
  /\ ret.sent.some
  /\ ret.sent.val.role = "request"
  /\ ret.sent.val.msg.properties.authn.some

\* The conversion that matches a role.
MatchingConversion(role) ==
  CASE role = "event" -> "into_event"
    [] role = "request" -> "into_request"
    [] role = "response" -> "into_response"

\* C8 as stated: for each role and every serializable payload, the bytes of
\* the outgoing envelope deserialize as an IncomingEnvelope, and the matching
\* conversion at the payload's type succeeds with a payload equal to the
\* original.
C8_RoundTripEveryRole ==
  /\ (ret.op = "from_bytes" /\ ret.sent.some) => ret.envelope.ok
  /\ (/\ ret.op \in {"into_event", "into_request", "into_response"}
      /\ ret.sent.some
      /\ ret.op = MatchingConversion(ret.sent.val.role)
      /\ ret.T = TypeOf(ret.sent.val.msg.payload)) =>
       /\ ret.result.ok
       /\ ret.result.val.payload = ret.sent.val.msg.payload

\* C8: the round trip holds for a request whose outgoing properties carry
\* AuthnProperties: the bytes of its envelope deserialize as an
\* IncomingEnvelope tagged request, and into_request at the payload's type
\* succeeds with a payload equal to the original, the sender's identity and
\* the request's method, correlation_data and response_topic.  The bytes of
\* an event, of a response and of a request without AuthnProperties do not
\* deserialize as an IncomingEnvelope: they lack agent_label.
C8_RoundTripRequestWithAuthn ==
  /\ (ret.op = "from_bytes" /\ ret.sent.some) =>
       IF SentRequestWithAuthn
       THEN /\ ret.envelope.ok
            /\ ret.envelope.val.properties.type = "request"
       ELSE ret.envelope = Err([kind |-> "MissingField", field |-> "agent_label"])
  /\ (/\ ret.op = "into_request"
      /\ ret.sent.some
      /\ ret.T = TypeOf(ret.sent.val.msg.payload)) =>
       /\ SentRequestWithAuthn
       /\ ret.result.ok
       /\ ret.result.val.payload = ret.sent.val.msg.payload
       /\ ret.result.val.properties.authn = ret.sent.val.msg.properties.authn.val
       /\ ret.result.val.properties.method = ret.sent.val.msg.properties.method
       /\ ret.result.val.properties.correlation_data
            = ret.sent.val.msg.properties.correlation_data
       /\ ret.result.val.properties.response_topic
            = ret.sent.val.msg.properties.response_topic

\* A request with AuthnProperties and a payload holding quotes went through
\* to_bytes, IncomingEnvelope and into_request, and the payload came back.
C8_Witness ==
  /\ ret.op = "into_request"
  /\ SentRequestWithAuthn
  /\ ret.sent.val.msg.payload = JStr(<<"say ", "\"", "hi", "\"">>)
  /\ ret.T = "String"
  /\ ret.result.ok
  /\ ret.result.val.payload = ret.sent.val.msg.payload

\* The role a conversion asks for.
RequestedRole ==
  CASE ret.op = "into_event" -> "event"
    [] ret.op = "into_request" -> "request"
    [] ret.op = "into_response" -> "response"

\* C9 as stated: a conversion whose requested role differs from the
\* envelope's tag fails with RoleMismatch whatever the payload string holds,
\* and PayloadDeserializationError is returned only when the tag matches and
\* the payload string does not deserialize into the caller's type.
C9_RoleCheckedBeforePayload ==
  ret.op \in {"into_event", "into_request", "into_response"} =>
    /\ ret.envelope.properties.type # RequestedRole =>
         (~ret.result.ok /\ ret.result.err.kind = "RoleMismatch")
    /\ (~ret.result.ok /\ ret.result.err.kind = "PayloadDeserializationError") =>
         /\ ret.envelope.properties.type = RequestedRole
         /\ ~from_str(ret.T, ret.envelope.payload).ok

\* An envelope tagged event whose payload is no JSON was converted with
\* into_request, and the error was the payload's.
C9_Witness ==
  /\ ret.op = "into_request"
  /\ ret.envelope.properties.type = "event"
  /\ ret.envelope.payload = <<"oops">>
  /\ ~ret.result.ok
  /\ ret.result.err.kind = "PayloadDeserializationError"

----------------------------------------------------------------------------
(* Properties of AuthnProperties::deserialize, checked under SpecAuthn *)

\* The keys of the object handed to the deserializer, in order.
KeyAt(i) == ret.map[i].key
KeyIndices == 1..Len(ret.map)

\* The string a member holds, without its quotes.
ValueOf(k) == << ret.map[CHOOSE i \in KeyIndices : KeyAt(i) = k].value.text[2] >>

AuthnFieldNames == {"agent_label", "account_label", "audience"}
AuthnFieldOrder == <<"agent_label", "account_label", "audience">>

\* The positions whose key is no field, or a field seen before.
UnknownAt == { i \in KeyIndices : KeyAt(i) \notin AuthnFieldNames }
RepeatedAt == { i \in KeyIndices : /\ KeyAt(i) \in AuthnFieldNames
                                   /\ \E j \in 1..(i - 1) : KeyAt(j) = KeyAt(i) }
AbsentFields == { k \in AuthnFieldNames : \A i \in KeyIndices : KeyAt(i) # k }
FirstOffence == CHOOSE i \in UnknownAt \cup RepeatedAt :
                  \A j \in UnknownAt \cup RepeatedAt : i <= j
FirstAbsent == AuthnFieldOrder[CHOOSE n \in 1..3 :
                 /\ AuthnFieldOrder[n] \in AbsentFields
                 /\ \A m \in 1..(n - 1) : AuthnFieldOrder[m] \notin AbsentFields]

\* C10: over every sequence of keys drawn from the three fields and another
\* name, deserialization succeeds exactly when each of the three fields
\* occurs once and no other key occurs, and the value is then
\* AgentId(agent_label, AccountId(account_label, audience)).  Otherwise no
\* value is produced and the error is DuplicateField naming a field that
\* occurs twice, MissingField naming a field that does not occur, or
\* UnknownField naming a key that is no field: the first key in order that
\* is unknown or repeated decides it, and when there is none the first
\* absent field in the order agent_label, account_label, audience does; an
\* object with only agent_label and account_label fails with
\* MissingField("audience").
C10_AuthnDeserialize ==
  ret.op = "authn_deserialize" =>
    /\ ret.result.ok <=>
         (\A k \in AuthnFieldNames :
            Cardinality({ i \in KeyIndices : KeyAt(i) = k }) = 1)
         /\ UnknownAt = {}
    /\ ret.result.ok =>
         ret.result = [ok |-> TRUE,
                       val |-> [agent_id |->
                                  [label |-> ValueOf("agent_label"),
                                   account_id |-> [label |-> ValueOf("account_label"),
                                                   audience |-> ValueOf("audience")]]]]
    /\ ~ret.result.ok =>
         /\ DOMAIN ret.result = {"ok", "err"}
         /\ IF UnknownAt \cup RepeatedAt # {}
            THEN IF FirstOffence \in UnknownAt
                 THEN ret.result.err = [kind |-> "UnknownField", field |-> KeyAt(FirstOffence)]
                 ELSE ret.result.err = [kind |-> "DuplicateField", field |-> KeyAt(FirstOffence)]
            ELSE ret.result.err = [kind |-> "MissingField", field |-> FirstAbsent]
    /\ (UnknownAt = {} /\ RepeatedAt # {}) => ret.result.err.kind = "DuplicateField"
    /\ (UnknownAt # {} /\ RepeatedAt = {}) => ret.result.err.kind = "UnknownField"
    /\ (UnknownAt = {} /\ RepeatedAt = {} /\ AbsentFields = {"audience"}) =>
         ret.result = Err([kind |-> "MissingField", field |-> "audience"])

\* The three fields were read once each, audience first, with distinct
\* labels, and the AgentId was rebuilt.
C10_Witness ==
  /\ ret.op = "authn_deserialize"
  /\ Len(ret.map) = 3
  /\ KeyAt(1) = "audience"
  /\ KeyAt(2) = "agent_label"
  /\ ret.map[1].value # ret.map[3].value
  /\ ret.result.ok
  /\ ret.result.val.agent_id.account_id.audience = ValueOf("audience")

----------------------------------------------------------------------------
(* Properties of topic resolution, checked under SpecTopic *)

\* The sender of the example and the account it addresses.
ExampleSender == AgentId_new(<<"web">>, AccountId_new(<<"svc">>, <<"usr01.svc.example.org">>))
ExampleAccount == AccountId_new(<<"usr02">>, <<"example.org">>)

\* A request was resolved by the example's sender for a Unicast destination
\* in the example's account.
ExampleRequest ==
  /\ ret.op = "destination_topic"
  /\ agent = ExampleSender
  /\ ret.properties.type = "request"
  /\ ret.destination.tag = "Unicast"
  /\ ret.destination.agent_id.account_id = ExampleAccount

\* C11 as stated: a request from agent web.svc.usr01.svc.example.org
\* addressed Unicast to account usr02.example.org resolves to
\* agents/web.svc.usr01.svc.example.org/api/v1/in/usr02.example.org.
C11_ExampleAsStated ==
  ExampleRequest =>
    ret.topic = Ok(<<"agents", "/", "web.svc.usr01.svc.example.org", "/", "api", "/",
                     "v1", "/", "in", "/", "usr02.example.org">>)

\* C11: a request from agent web.svc.usr01.svc.example.org addressed Unicast
\* to an agent {label}.usr02.example.org resolves to
\* agents/{label}.usr02.example.org/api/v1/in/svc.usr01.svc.example.org: the
\* receiving agent comes first and the sender's account last; for the agent
\* web.usr02.example.org the topic is
\* agents/web.usr02.example.org/api/v1/in/svc.usr01.svc.example.org.
C11_ExampleRequestUnicast ==
  ExampleRequest =>
    /\ ret.topic = Ok(<<"agents", "/">> \o AgentName(ret.destination.agent_id)
                      \o <<"/", "api", "/", "v1", "/", "in", "/",
                           "svc.usr01.svc.example.org">>)
    /\ ret.destination.agent_id.label = <<"web">> =>
         ret.topic = Ok(<<"agents", "/", "web.usr02.example.org", "/", "api", "/", "v1",
                          "/", "in", "/", "svc.usr01.svc.example.org">>)
    /\ ret.destination.agent_id.label = <<"mobile">> =>
         ret.topic = Ok(<<"agents", "/", "mobile.usr02.example.org", "/", "api", "/", "v1",
                          "/", "in", "/", "svc.usr01.svc.example.org">>)

\* The example's sender resolved a request to web.usr02.example.org.
C11_Witness ==
  /\ ExampleRequest
  /\ ret.destination.agent_id.label = <<"web">>
  /\ ret.topic.ok

----------------------------------------------------------------------------
(* Properties of Publish::publish, checked under SpecBatch *)

BatchOps == {"publish_one", "publish_pair", "publish_vec"}

\* Whether the topic of the i-th message (from 1) resolves for the agent,
\* and whether its publish fails: by resolution or by the client.
Resolves(i) ==
  OutgoingEnvelope_destination_topic(ret.messages[i], AsAddressable(agent)).ok
FailsAt(i) == ~Resolves(i) \/ ~ret.outcomes[i].ok
FailingIndices == { i \in 1..Len(ret.messages) : FailsAt(i) }
FirstFailing == CHOOSE i \in FailingIndices : \A j \in FailingIndices : i <= j

\* The call the client receives for the i-th message.
CallFor(i) ==
  [call |-> "publish",
   topic |-> OutgoingEnvelope_destination_topic(ret.messages[i], AsAddressable(agent)).val,
   qos |-> "AtLeastOnce", retain |-> FALSE,
   bytes |-> OutgoingEnvelope_to_bytes(ret.messages[i]).val]

\* C12 as stated: whenever a publish operation, on one message, a pair or a
\* Vec, returns an error because a topic could not be resolved or a message
\* could not be serialized, the transport has received no message from that
\* operation.
C12_NoPartialEffect ==
  [][(/\ ret.op = "none"
      /\ ret'.op \in BatchOps
      /\ ~ret'.result.ok
      /\ ret'.result.err.kind \in {"IncompatibleDestination", "PayloadSerializationError"})
     => tx' = tx]_vars

\* A pair whose second topic does not resolve returned the error, and the
\* client has received the first message.
C12_Witness ==
  /\ ret.op = "publish_pair"
  /\ ~ret.result.ok
  /\ ret.result.err.kind = "IncompatibleDestination"
  /\ Len(tx) = 1
  /\ tx[1] = CallFor(1)

\* C15: a pair or a Vec is handed to the client one message at a time in
\* sequence order, index 0 first, each message's topic resolved before its
\* bytes are made and both before it is sent.  At the first message whose
\* publish fails the operation returns that message's error, no step is
\* taken for any later message, and the client keeps the calls made so far:
\* those of the messages before, and the failing message's own when it was
\* the client that failed.  With no failing message the client has one call
\* per message and the result is Ok; an empty Vec returns Ok with no call.
C15_SequenceOrder ==
  ret.op \in {"publish_pair", "publish_vec"} =>
    LET n == Len(ret.messages)
        last == IF FailingIndices = {} THEN n ELSE FirstFailing
        sent == IF FailingIndices # {} /\ ~Resolves(FirstFailing) THEN last - 1 ELSE last
    IN /\ Len(tx) = sent
       /\ \A i \in 1..sent : tx[i] = CallFor(i)
       /\ FailingIndices = {} => ret.result = Ok(<<>>)
       /\ (FailingIndices # {} /\ ~Resolves(FirstFailing)) =>
            ret.result = Err([kind |-> "IncompatibleDestination",
                              role |-> ret.messages[FirstFailing].properties.type,
                              dest |-> ret.messages[FirstFailing].destination])
       /\ (FailingIndices # {} /\ Resolves(FirstFailing)) =>
            ret.result = Err([kind |-> "Message",
                              msg |-> "Error publishing an MQTT message"])
       /\ \A j \in 1..Len(ret.log) :
            /\ ret.log[j].index <= last - 1
            /\ CASE ret.log[j].step = "destination_topic" ->
                      \/ j = 1 /\ ret.log[j].index = 0
                      \/ /\ j > 1
                         /\ ret.log[j - 1] = [step |-> "tx.publish",
                                              index |-> ret.log[j].index - 1]
                 [] ret.log[j].step = "to_bytes" ->
                      /\ j > 1
                      /\ ret.log[j - 1] = [step |-> "destination_topic",
                                           index |-> ret.log[j].index]
                 [] ret.log[j].step = "tx.publish" ->
                      /\ j > 1
                      /\ ret.log[j - 1] = [step |-> "to_bytes", index |-> ret.log[j].index]
       /\ \A i \in 1..last :
            \E j \in 1..Len(ret.log) :
              ret.log[j] = [step |-> "destination_topic", index |-> i - 1]
       /\ n = 0 => (ret.result = Ok(<<>>) /\ tx = <<>> /\ ret.log = <<>>)

\* A Vec of two messages: the first was sent, the second's topic did not
\* resolve.
C15_Witness ==
  /\ ret.op = "publish_vec"
  /\ Len(ret.messages) = 2
  /\ ret.messages[1] # ret.messages[2]
  /\ ~Resolves(2)
  /\ ~ret.result.ok
  /\ Len(tx) = 1
  /\ tx[1] = CallFor(1)

----------------------------------------------------------------------------
(* Publish topics against subscription patterns, checked under SpecTopic *)

\* The levels of a topic: the pieces between its slashes.
RECURSIVE Levels(_)
Levels(topic) ==
  IF topic = <<>> THEN << <<>> >>
  ELSE IF Head(topic) = "/" THEN << <<>> >> \o Levels(Tail(topic))
  ELSE Let(Levels(Tail(topic)), LAMBDA rest :
         << <<Head(topic)>> \o Head(rest) >> \o Tail(rest))

\* MQTT matching without `#`: level by level, `+` standing for any one level.
Matches(pattern, topic) ==
  Let2(Levels(pattern), Levels(topic), LAMBDA p, t :
    /\ Len(p) = Len(t)
    /\ \A i \in 1..Len(p) : p[i] = <<"+">> \/ p[i] = t[i])

\* The receiver resolved a subscription of the role of the published
\* properties.
SameRole == ret.subscription.role = ret.properties.type

\* The published message has no explicit topic.
NoExplicitTopic ==
  ret.properties.type = "response" => ~ret.properties.props.response_topic.some

\* C13: the publish topic of every legal pair is matched by the pattern the
\* intended receiver resolves on its own, `+` matching exactly one level: an
\* event to Broadcast(uri) published by A equals the event pattern for
\* Broadcast(A, uri) of any subscriber; a request or response to Unicast(B)
\* from A, without explicit topic, equals B's pattern for Unicast(Some(A))
\* and matches B's pattern for Unicast(None); a request to Multicast(C) from
\* A matches the Multicast request pattern of every agent of account C.
C13_PatternMatchesTopic ==
  ret.op = "subscription_topic" =>
    /\ (/\ ret.properties.type = "event"
        /\ ret.destination.tag = "Broadcast"
        /\ ret.subscription.role = "event"
        /\ ret.subscription.source
             = [tag |-> "Broadcast", from |-> [agent_id |-> agent],
                uri |-> ret.destination.uri]) =>
         /\ ret.pattern = ret.topic
         /\ Matches(ret.pattern.val, ret.topic.val)
    /\ (/\ ret.properties.type \in {"request", "response"}
        /\ NoExplicitTopic
        /\ ret.destination.tag = "Unicast"
        /\ ret.receiver = ret.destination.agent_id
        /\ SameRole
        /\ ret.subscription.source
             = [tag |-> "Unicast", from |-> [some |-> TRUE, val |-> [agent_id |-> agent]]]) =>
         /\ ret.pattern = ret.topic
         /\ Matches(ret.pattern.val, ret.topic.val)
    /\ (/\ ret.properties.type \in {"request", "response"}
        /\ NoExplicitTopic
        /\ ret.destination.tag = "Unicast"
        /\ ret.receiver = ret.destination.agent_id
        /\ SameRole
        /\ ret.subscription.source = [tag |-> "Unicast", from |-> [some |-> FALSE]]) =>
         /\ ret.pattern.ok
         /\ Matches(ret.pattern.val, ret.topic.val)
    /\ (/\ ret.properties.type = "request"
        /\ ret.destination.tag = "Multicast"
        /\ ret.receiver.account_id = ret.destination.account_id
        /\ ret.subscription.role = "request"
        /\ ret.subscription.source.tag = "Multicast") =>
         /\ ret.pattern.ok
         /\ Matches(ret.pattern.val, ret.topic.val)

\* A request to Multicast(C) from an agent of another account met the
\* Multicast request pattern of an agent of C, which holds a `+`.
C13_Witness ==
  /\ ret.op = "subscription_topic"
  /\ ret.properties.type = "request"
  /\ ret.destination.tag = "Multicast"
  /\ ret.receiver.account_id = ret.destination.account_id
  /\ agent.account_id # ret.receiver.account_id
  /\ ret.subscription.role = "request"
  /\ ret.subscription.source.tag = "Multicast"
  /\ ret.pattern.ok
  /\ ret.pattern.val # ret.topic.val
  /\ Matches(ret.pattern.val, ret.topic.val)

----------------------------------------------------------------------------
(* Transport failures of the Agent, checked under Spec *)

\* C14 as stated: when the client fails in Agent::publish or
\* Agent::subscribe, the caller gets an error made of a fixed description
\* with no detail of the transport's error; the client was called once, not
\* again, and the agent's identity is what it was.
C14_TransportFailureWrapped ==
  [][(/\ ret'.op \in {"publish", "subscribe"}
      /\ vars' # vars
      /\ ret'.topic.ok
      /\ ~ret'.result.ok)
     => /\ ret'.result.err.kind = "Message"
        /\ DOMAIN ret'.result.err = {"kind", "msg"}
        /\ Len(tx') = Len(tx) + 1
        /\ agent' = agent]_vars

\* The client failed in Agent::subscribe and the caller got the client's
\* own error.
C14_Witness ==
  /\ ret.op = "subscribe"
  /\ ret.topic.ok
  /\ ~ret.result.ok
  /\ ret.result.err = [kind |-> "ClientError", detail |-> "connection closed"]
  /\ Len(tx) = 1

----------------------------------------------------------------------------
(* The response to a request, published: checked under SpecCodec *)

\* C16: a response built with IncomingRequest::to_response carries the
\* request's response_topic as its explicit topic, and when the agent
\* publishes it the client receives it on the request's response_topic
\* verbatim, whoever the responder is: the topic
\* agents/{requester}/api/v1/in/{responder's account} of its Unicast
\* destination is not used.
C16_ResponseGoesToResponseTopic ==
  /\ ret.op \in {"to_response", "publish_response"} =>
       ret.response.properties.response_topic
         = [some |-> TRUE, val |-> ret.request.properties.response_topic]
  /\ ret.op = "publish_response" =>
       /\ Len(tx) = 1
       /\ tx[1].call = "publish"
       /\ tx[1].topic = ret.request.properties.response_topic
       /\ tx[1].topic # <<"agents", "/">>
                          \o AgentName(ret.request.properties.authn.agent_id)
                          \o <<"/", "api", "/", "v1", "/", "in", "/">>
                          \o AccountName(agent.account_id)

\* A responder of another account than the requester's published the
\* response and the client received it on custom/reply.
C16_Witness ==
  /\ ret.op = "publish_response"
  /\ ret.request.properties.authn.agent_id.account_id # agent.account_id
  /\ ret.response.destination.tag = "Unicast"
  /\ ret.result.ok
  /\ tx # <<>>
  /\ tx[Len(tx)].topic = <<"custom", "/", "reply">>

============================================================================
